---- MODULE Spec2Model ----
(***************************************************************************)
(* The student-list pagination/search widget (src/js/pagination.js) and    *)
(* the parts of the fQuery helper library it runs through.                 *)
(*                                                                         *)
(* JavaScript strings are sequences of one-character strings; a DOM        *)
(* element is a record of the properties the program reads or writes.      *)
(***************************************************************************)
EXTENDS Integers, Sequences, FiniteSets, TLC

VARIABLES
  pc,          \* "load" before init() has run, "ready" after
  items,       \* the .student-item elements, in document order
  pageKids,    \* the elements the program appended to .page
  headerKids,  \* the elements the program appended to .page-header
  searchKids,  \* the children of the .student-search container
  lists,       \* the ul.list children of the .pagination container
  lastQuery,   \* query argument of the most recent makePage call
  lastPage,    \* page argument of the most recent makePage call
  array,       \* the matched array of the most recent makePage call
  renders,     \* number of makePage calls so far
  event,       \* what ran last: "none", "init", "edit", "keyup", "click", "call"
  clicked,     \* anchor text of the page link clicked last
  ret,         \* result of the last direct getQuery call
  error,       \* TRUE once a call has thrown a TypeError
  call         \* the last call of a library function: its input and result

vars == <<pc, items, pageKids, headerKids, searchKids, lists, lastQuery,
          lastPage, array, renders, event, clicked, ret, error, call>>

----------------------------------------------------------------------------
(* Bounds of the model *)

MaxItems == 25
MaxPattern == 1
MaxRenders == 3

(* The page size: the literal 10 of makePage and createPageLinks *)
PageSize == 10

----------------------------------------------------------------------------
(* JavaScript values *)

Undefined == "<undefined>"

Num(n) == [t |-> "number", n |-> n, s |-> <<>>]
Str(s) == [t |-> "string", n |-> 0, s |-> s]

Digits == <<"0", "1", "2", "3", "4", "5", "6", "7", "8", "9">>

DigitValue(c) == CHOOSE d \in 0..9 : Digits[d + 1] = c

RECURSIVE NumberToString(_)
NumberToString(n) ==
  IF n < 10 THEN <<Digits[n + 1]>>
  ELSE Append(NumberToString(n \div 10), Digits[(n % 10) + 1])

RECURSIVE StringToNumber(_)
StringToNumber(s) ==
  IF s = <<>> THEN 0
  ELSE StringToNumber(SubSeq(s, 1, Len(s) - 1)) * 10 + DigitValue(s[Len(s)])

ToNumber(v) == IF v.t = "number" THEN v.n ELSE StringToNumber(v.s)

LowerChar(c) ==
  CASE c = "A" -> "a"
    [] c = "B" -> "b"
    [] c = "C" -> "c"
    [] OTHER -> c

toLowerCase(s) == [i \in 1..Len(s) |-> LowerChar(s[i])]

IsWhiteSpace(c) == c = " "

RECURSIVE trimStart(_)
trimStart(s) ==
  IF s # <<>> /\ IsWhiteSpace(Head(s)) THEN trimStart(Tail(s)) ELSE s

RECURSIVE trimEnd(_)
trimEnd(s) ==
  IF s # <<>> /\ IsWhiteSpace(s[Len(s)])
  THEN trimEnd(SubSeq(s, 1, Len(s) - 1)) ELSE s

trim(s) == trimEnd(trimStart(s))

includes(s, q) ==
  \E k \in 0..(Len(s) - Len(q)) : SubSeq(s, k + 1, k + Len(q)) = q

Min(a, b) == IF a < b THEN a ELSE b
Max(a, b) == IF a > b THEN a ELSE b

(* Array.prototype.slice(start, end) *)
slice(arr, start, end) ==
  LET len == Len(arr)
      k == IF start < 0 THEN Max(len + start, 0) ELSE Min(start, len)
      e == IF end < 0 THEN Max(len + end, 0) ELSE Min(end, len)
  IN SubSeq(arr, k + 1, e)

(* Math.ceil(n / d) for n >= 0, d > 0 *)
ceilDiv(n, d) == (n + d - 1) \div d

Range(s) == {s[i] : i \in DOMAIN s}

----------------------------------------------------------------------------
(* The host document: rosters of student items *)

NamePool == << <<"a", "b">>, <<"A", "b">>, <<"b">>, <<"b", "a">>, <<"c">> >>
CssPool == <<"block", "list-item">>

StudentItem(i, k) ==
  [name |-> NamePool[(((i - 1) * k) % Len(NamePool)) + 1],
   css |-> CssPool[((i - 1) % Len(CssPool)) + 1],
   opacity |-> "",
   display |-> "",
   stored |-> Undefined]

Roster(n, k) == [i \in 1..n |-> StudentItem(i, k)]

(* Values the user can leave in the search field *)
FieldValues ==
  { <<>>, <<"a">>, <<"A">>, <<" ", "a">>, <<"b", " ">>, <<"B">>,
    <<"a", "b">>, <<"c">>, <<"a", "a">>, <<" ">> }

SearchId == <<"s", "e", "a", "r", "c", "h">>

----------------------------------------------------------------------------
(* fQuery *)

(* JavaScript values as the property walks see them *)
JSUndefined == [t |-> "undefined", s |-> <<>>, props |-> <<>>]
JSString(s) == [t |-> "string", s |-> s, props |-> <<>>]
JSNumber(n) == [t |-> "number", s |-> NumberToString(n), props |-> <<>>]
JSObject(props) == [t |-> "object", s |-> <<>>, props |-> props]

IsIndex(key) ==
  /\ key # <<>>
  /\ \A j \in DOMAIN key : \E d \in DOMAIN Digits : Digits[d] = key[j]
  /\ (Len(key) > 1 => key[1] # "0")

kLength == <<"l", "e", "n", "g", "t", "h">>
kStyle == <<"s", "t", "y", "l", "e">>
kChildren == <<"c", "h", "i", "l", "d", "r", "e", "n">>
kInnerHTML == <<"i", "n", "n", "e", "r", "H", "T", "M", "L">>
kClassName == <<"c", "l", "a", "s", "s", "N", "a", "m", "e">>
kWidth == <<"w", "i", "d", "t", "h">>
kValue == <<"v", "a", "l", "u", "e">>
kSlice == <<"s", "l", "i", "c", "e">>
kReverse == <<"r", "e", "v", "e", "r", "s", "e">>

(* first[second], for a first that is not undefined *)
Lookup(v, key) ==
  CASE v.t = "object" ->
         IF key \in DOMAIN v.props THEN v.props[key] ELSE JSUndefined
    [] v.t = "string" ->
         IF key = kLength THEN JSNumber(Len(v.s))
         ELSE IF IsIndex(key) /\ StringToNumber(key) < Len(v.s)
              THEN JSString(<<v.s[StringToNumber(key) + 1]>>)
              ELSE JSUndefined
    [] OTHER -> JSUndefined

styleAlias(value) ==
  [test |-> value # <<>> /\ value[1] = ".", alias |-> kStyle \o value]

RECURSIVE replaceChild(_)
replaceChild(value) ==
  IF value = <<>> THEN <<>>
  ELSE (IF Head(value) = ">" THEN <<".">> \o kChildren \o <<".">> ELSE <<Head(value)>>)
       \o replaceChild(Tail(value))

(* childAlias with a regular expression that is not global *)
RECURSIVE replaceFirstChild(_)
replaceFirstChild(value) ==
  IF value = <<>> THEN <<>>
  ELSE IF Head(value) = ">" THEN <<".">> \o kChildren \o <<".">> \o Tail(value)
       ELSE <<Head(value)>> \o replaceFirstChild(Tail(value))

childAlias_firstOnly(value) ==
  [test |-> \E j \in DOMAIN value : value[j] = ">", alias |-> replaceFirstChild(value)]

childAlias(value) ==
  [test |-> \E j \in DOMAIN value : value[j] = ">", alias |-> replaceChild(value)]

(* the reduce of selectorValidator over the results of its predicates *)
RECURSIVE selectorValidator(_, _)
selectorValidator(results, firstResult) ==
  IF results = <<>> THEN firstResult
  ELSE selectorValidator(Tail(results),
                         IF Head(results).test THEN Head(results) ELSE firstResult)

(* property.split('.') *)
RECURSIVE split(_, _)
split(property, piece) ==
  IF property = <<>> THEN <<piece>>
  ELSE IF Head(property) = "." THEN <<piece>> \o split(Tail(property), <<>>)
       ELSE split(Tail(property), Append(piece, Head(property)))

prop(property) == SelectSeq(split(property, <<>>), LAMBDA key : key # <<>>)

(* propWrapper(prop, styleAlias, childAlias) *)
on(selector) ==
  LET alias == selectorValidator(<<styleAlias(selector), childAlias(selector)>>,
                                 [test |-> FALSE, alias |-> <<>>])
  IN IF alias.test THEN prop(alias.alias) ELSE prop(selector)

(* what a property walk gives: the value reached, or a TypeError thrown *)
Thrown == [error |-> TRUE, value |-> JSUndefined]
Returned(v) == [error |-> FALSE, value |-> v]

(* getValue()(elementSelected, array) *)
RECURSIVE getValue(_, _)
getValue(elementSelected, keys) ==
  IF keys = <<>> THEN Returned(elementSelected)
  ELSE IF elementSelected.t = "undefined" THEN Thrown
       ELSE getValue(Lookup(elementSelected, Head(keys)), Tail(keys))

(* the value at a key path of a tree of objects, undefined where the path ends *)
RECURSIVE At(_, _)
At(root, path) ==
  IF path = <<>> THEN root
  ELSE IF root.t = "object" /\ Head(path) \in DOMAIN root.props
       THEN At(root.props[Head(path)], Tail(path))
       ELSE JSUndefined

(* the tree with the existing property at the path assigned *)
RECURSIVE Put(_, _, _)
Put(root, path, v) ==
  IF path = <<>> THEN v
  ELSE [root EXCEPT !.props[Head(path)] = Put(@, Tail(path), v)]

(* keyTest of setValue writing where the current value is not a string *)
keyTest_any(v) == v.t # "undefined"

(* validator(isString) *)
keyTest(v) == v.t = "string"

(* the reduce of setValue: `first` is the object at `at`, or the primitive `prim` *)
RECURSIVE setWalk(_, _, _, _, _, _)
setWalk(root, isRef, at, prim, keys, value) ==
  LET firstValue == IF isRef THEN At(root, at) ELSE prim
      second == Head(keys)
      current == Lookup(firstValue, second)
  IN IF keys = <<>> THEN [root |-> root, error |-> FALSE, value |-> firstValue]
     ELSE IF firstValue.t = "undefined"
          THEN [root |-> root, error |-> TRUE, value |-> JSUndefined]
     ELSE IF keyTest(current)
          THEN IF isRef
               THEN setWalk(Put(root, Append(at, second), value), FALSE, <<>>,
                            value, Tail(keys), value)
               ELSE [root |-> root, error |-> TRUE, value |-> JSUndefined]
     ELSE IF current.t = "object"
          THEN setWalk(root, TRUE, Append(at, second), JSUndefined, Tail(keys), value)
          ELSE setWalk(root, FALSE, <<>>, current, Tail(keys), value)

(* setValue(value)(elementSelected, array): the target after the call, the   *)
(* value returned, or a TypeError thrown                                      *)
setValue(value, elementSelected, keys) ==
  setWalk(elementSelected, elementSelected.t = "object", <<>>, elementSelected,
          keys, value)

(* the name field of a student item is read at '>0>1.innerHTML' *)
NamePath == <<">", "0", ">", "1", ".">> \o kInnerHTML

(* a student item as the property walk sees it: li > div > (img, h3, span) *)
studentObject(item) ==
  LET avatar == JSObject(kInnerHTML :> JSString(<<>>))
      heading == JSObject(kInnerHTML :> JSString(item.name))
      details == JSObject(kChildren :> JSObject(<<"0">> :> avatar @@ <<"1">> :> heading))
  IN JSObject(kChildren :> JSObject(<<"0">> :> details))

computedDisplay(element) ==
  IF element.display = "" THEN element.css ELSE element.display

(* hide reading the computed display after setting display to none *)
hide_late(element) ==
  [element EXCEPT !.opacity = "0", !.stored = "none", !.display = "none"]

hide(element) ==
  [element EXCEPT !.opacity = "0",
                  !.stored = computedDisplay(element),
                  !.display = "none"]

(* show ignoring the stored display *)
show_noRestore(element) ==
  [element EXCEPT !.opacity = "1", !.display = "", !.stored = Undefined]

show(element) ==
  [element EXCEPT !.opacity = "1",
                  !.display = IF element.stored # Undefined /\ element.stored # ""
                              THEN element.stored ELSE "",
                  !.stored = Undefined]

(* what the callback of a collection step gives for one element: whether  *)
(* the element is kept, or a TypeError thrown                              *)
Kept(b) == [error |-> FALSE, keep |-> b]
CallbackThrown == [error |-> TRUE, keep |-> FALSE]

AllDigits(s) == \A j \in DOMAIN s : \E d \in DOMAIN Digits : Digits[d] = s[j]

(* v == s for a string s: a number is compared as a number, undefined is   *)
(* equal to no string, an object is compared by its string form, which no  *)
(* value of the model spells                                               *)
looseEquals(v, s) ==
  CASE v.t = "string" -> v.s = s
    [] v.t = "number" -> AllDigits(s) /\ StringToNumber(s) = StringToNumber(v.s)
    [] OTHER -> FALSE

(* matchIt(propArray)(element): propArray.every(...) *)
RECURSIVE matchIt(_, _)
matchIt(propArray, element) ==
  IF propArray = <<>> THEN Kept(TRUE)
  ELSE LET got == getValue(element, on(Head(propArray).key))
       IN IF got.error THEN CallbackThrown
          ELSE IF ~looseEquals(got.value, Head(propArray).value) THEN Kept(FALSE)
          ELSE matchIt(Tail(propArray), element)

(* findIt comparing for equality instead of containment *)
RECURSIVE findIt_equal(_, _)
findIt_equal(propArray, element) ==
  IF propArray = <<>> THEN Kept(FALSE)
  ELSE LET got == getValue(element, on(Head(propArray).key))
       IN IF got.error \/ got.value.t # "string" THEN CallbackThrown
          ELSE IF got.value.s = Head(propArray).value THEN Kept(TRUE)
          ELSE findIt_equal(Tail(propArray), element)

(* findIt folding the case of the property before the search *)
RECURSIVE findIt_ignoreCase(_, _)
findIt_ignoreCase(propArray, element) ==
  IF propArray = <<>> THEN Kept(FALSE)
  ELSE LET got == getValue(element, on(Head(propArray).key))
       IN IF got.error \/ got.value.t # "string" THEN CallbackThrown
          ELSE IF includes(toLowerCase(got.value.s), Head(propArray).value)
               THEN Kept(TRUE)
          ELSE findIt_ignoreCase(Tail(propArray), element)

(* findIt(propArray)(element): propArray.some(...); includes is a method   *)
(* of strings only, on any other value the call is a TypeError             *)
RECURSIVE findIt(_, _)
findIt(propArray, element) ==
  IF propArray = <<>> THEN Kept(FALSE)
  ELSE LET got == getValue(element, on(Head(propArray).key))
       IN IF got.error \/ got.value.t # "string" THEN CallbackThrown
          ELSE IF includes(got.value.s, Head(propArray).value) THEN Kept(TRUE)
          ELSE findIt(Tail(propArray), element)

(* an array, a boolean *)
JSArray(elements) == [t |-> "array", s |-> <<>>, props |-> <<>>, elements |-> elements]
JSBoolean(b) == [t |-> "boolean", s |-> IF b THEN <<"1">> ELSE <<>>, props |-> <<>>]

(* whether a value counts as true in a condition *)
Truthy(v) ==
  CASE v.t = "undefined" -> FALSE
    [] v.t = "string" -> v.s # <<>>
    [] v.t = "boolean" -> v.s # <<>>
    [] v.t = "number" -> v.s # <<"0">>
    [] OTHER -> TRUE

(* a function as a value: its name property and what its body computes *)
Function(name, body) == [t |-> "function", name |-> name, body |-> body]

(* action.apply(null, args): the value the body gives, or a TypeError *)
Apply(action, args) ==
  LET fn == action.body.fn
  IN CASE fn = "isObject" -> Returned(JSBoolean(args[1].t = "object"))
       [] fn = "self" -> Returned(args[1])
       [] fn = "index" -> Returned(args[2])
       [] fn = "size" -> Returned(JSNumber(Len(args[1].elements)))
       [] fn = "first" ->
            Returned(JSArray(SubSeq(args[1].elements, 1,
                                    Min(StringToNumber(args[2].s),
                                        Len(args[1].elements)))))
       [] fn = "findIt" ->
            LET r == findIt(action.body.propArray, args[1])
            IN IF r.error THEN Thrown ELSE Returned(JSBoolean(r.keep))
       [] fn = "matchIt" ->
            LET r == matchIt(action.body.propArray, args[1])
            IN IF r.error THEN Thrown ELSE Returned(JSBoolean(r.keep))

(* the value of the callback of map and filter for the element at index j *)
Callback(elementArray, action, j) ==
  Apply(action, <<elementArray[j], JSNumber(j - 1), JSArray(elementArray)>>)

(* elementArray.map(action) *)
map(elementArray, action) ==
  IF \E j \in DOMAIN elementArray : Callback(elementArray, action, j).error
  THEN Thrown
  ELSE Returned(JSArray([j \in DOMAIN elementArray |->
                           Callback(elementArray, action, j).value]))

RECURSIVE filterFrom(_, _, _)
filterFrom(elementArray, action, j) ==
  IF j > Len(elementArray) THEN <<>>
  ELSE (IF Truthy(Callback(elementArray, action, j).value)
        THEN <<elementArray[j]>> ELSE <<>>)
       \o filterFrom(elementArray, action, j + 1)

(* elementArray.filter(action) *)
filter(elementArray, action) ==
  IF \E j \in DOMAIN elementArray : Callback(elementArray, action, j).error
  THEN Thrown
  ELSE Returned(JSArray(filterFrom(elementArray, action, 1)))

RECURSIVE reverse(_)
reverse(elementArray) ==
  IF elementArray = <<>> THEN <<>>
  ELSE Append(reverse(Tail(elementArray)), Head(elementArray))

(* an argument of slice: undefined begin is 0, undefined end is the length *)
sliceArg(args, j, default) ==
  IF j \in DOMAIN args /\ args[j].t = "number" THEN StringToNumber(args[j].s)
  ELSE default

(* elementArray[action].apply(elementArray, args): a TypeError where the   *)
(* property of that name is not a function                                 *)
nativeMethod(elementArray, action, args) ==
  CASE action = kSlice ->
         Returned(JSArray(slice(elementArray, sliceArg(args, 1, 0),
                                sliceArg(args, 2, Len(elementArray)))))
    [] action = kReverse -> Returned(JSArray(reverse(elementArray)))
    [] OTHER -> Thrown

(* continueOrEnd(returnedValue, continuedValue): what the empty call gives *)
(* and what the next step is called with                                   *)
continueOrEnd(returnedValue, continuedValue) ==
  [error |-> FALSE, returned |-> returnedValue, continued |-> continuedValue]

(* verb(element) for the element verbs hide and show *)
callVerb(verb, element) ==
  CASE verb = "hide" -> hide(element)
    [] verb = "show" -> show(element)

(* and(element)(verb) for an element verb: verb(element) is evaluated once *)
(* for each argument of continueOrEnd, on the same element                 *)
and(element, verb) ==
  LET returnedValue == callVerb(verb, element)
      continuedValue == callVerb(verb, returnedValue)
  IN continueOrEnd(continuedValue, continuedValue)

ChainThrown == [error |-> TRUE, returned |-> JSUndefined, continued |-> JSUndefined]

(* then filtering only by the name f *)
then_filterF(elementArray, action, args) ==
  IF action.t = "string"
  THEN LET transform == nativeMethod(elementArray, action.s, args)
       IN IF transform.error THEN ChainThrown
          ELSE continueOrEnd(transform.value, transform.value)
  ELSE IF action.name # <<>>
  THEN LET transform == IF action.name = <<"f">>
                        THEN filter(elementArray, action)
                        ELSE map(elementArray, action)
       IN IF transform.error THEN ChainThrown
          ELSE continueOrEnd(transform.value, transform.value)
  ELSE LET transform == Apply(action, <<JSArray(elementArray)>> \o args)
       IN IF transform.error THEN ChainThrown
          ELSE continueOrEnd(transform.value, transform.value)

(* then(elementArray)(action), called with args where it takes them *)
then(elementArray, action, args) ==
  IF action.t = "string"
  THEN LET transform == nativeMethod(elementArray, action.s, args)
       IN IF transform.error THEN ChainThrown
          ELSE continueOrEnd(transform.value, transform.value)
  ELSE IF action.name # <<>>
  THEN LET method == IF action.name = <<"m">> \/ action.name = <<"f">>
                     THEN "filter" ELSE "map"
           transform == IF method = "filter"
                        THEN filter(elementArray, action)
                        ELSE map(elementArray, action)
       IN IF transform.error THEN ChainThrown
          ELSE continueOrEnd(transform.value, transform.value)
  ELSE LET transform == Apply(action, <<JSArray(elementArray)>> \o args)
       IN IF transform.error THEN ChainThrown
          ELSE continueOrEnd(transform.value, transform.value)

(* actionMaker(action)(object): the callback made from the pairs of object *)
actionMaker(action, name, object) ==
  Function(name, [fn |-> action, propArray |-> object])

match(object) == actionMaker("matchIt", <<"m">>, object)

findPairs(object) == actionMaker("findIt", <<"f">>, object)

(* a node number no child of the parent carries: the identity of a new element *)
freshNode(children) ==
  IF children = <<>> THEN 1
  ELSE 1 + (CHOOSE m \in {children[j].node : j \in DOMAIN children} :
              \A j \in DOMAIN children : children[j].node <= m)

(* parent.appendChild(element): a node that is already a child is moved *)
appendTo(children, element) ==
  Append(SelectSeq(children, LAMBDA c : c.node # element.node), element)

(* and(element)(verb) evaluates verb(element) twice *)
andAppendTo(children, element) == appendTo(appendTo(children, element), element)

querySelector(children, className) ==
  IF \E j \in DOMAIN children : children[j].className = className
  THEN CHOOSE j \in DOMAIN children :
         /\ children[j].className = className
         /\ \A h \in 1..(j - 1) : children[h].className # className
  ELSE 0

----------------------------------------------------------------------------
(* pagination.js *)

(* The document as the functions below read and write it *)
Document ==
  [items |-> items, pageKids |-> pageKids, headerKids |-> headerKids,
   searchKids |-> searchKids, lists |-> lists, array |-> array,
   error |-> error]

PaginationDiv(children) ==
  [node |-> freshNode(children), className |-> "pagination"]

SearchDiv(children) ==
  [node |-> freshNode(children), className |-> "student-search"]

SearchBox(children) ==
  [node |-> freshNode(children), className |-> "", id |-> SearchId, value |-> <<>>]

attachPagination(doc) ==
  [doc EXCEPT !.pageKids = andAppendTo(@, PaginationDiv(@))]

attachSearch(doc) ==
  LET withDiv == [doc EXCEPT !.headerKids = andAppendTo(@, SearchDiv(@))]
  IN [withDiv EXCEPT !.searchKids = andAppendTo(@, SearchBox(@))]

(* $('#search')(): index of the first child of .student-search with that id, or 0 *)
searchBox(doc) ==
  IF \E j \in DOMAIN doc.searchKids : doc.searchKids[j].id = SearchId
  THEN CHOOSE j \in DOMAIN doc.searchKids :
         /\ doc.searchKids[j].id = SearchId
         /\ \A h \in 1..(j - 1) : doc.searchKids[h].id # SearchId
  ELSE 0

(* first with the page not shifted to a zero-based window *)
first_unshifted(page) == ToNumber(page) * PageSize

first(page) == (ToNumber(page) - 1) * PageSize

last(page) == ToNumber(page) * PageSize

(* totalPages rounding down instead of up *)
totalPages_floor(matched) == Len(matched) \div PageSize

totalPages(matched) == ceilDiv(Len(matched), PageSize)

linkClass(active, i) == IF ToNumber(active) = i + 1 THEN "active" ELSE ""

PageLink(children, active, i) ==
  [node |-> freshNode(children), id |-> <<>>,
   className |-> linkClass(active, i), innerHTML |-> NumberToString(i + 1)]

(* the for loop of createPageLinks: each li goes to the first .list *)
RECURSIVE pageLinkLoop(_, _, _, _)
pageLinkLoop(uls, i, total, active) ==
  IF i >= total THEN uls
  ELSE pageLinkLoop(
         [uls EXCEPT ![1].links = andAppendTo(@, PageLink(@, active, i))],
         i + 1, total, active)

createPageLinks(doc, matched, active) ==
  IF querySelector(doc.pageKids, "pagination") = 0
  THEN [doc EXCEPT !.error = TRUE]
  ELSE LET ul == [node |-> freshNode(doc.lists), className |-> "list", links |-> <<>>]
           uls == andAppendTo(doc.lists, ul)
       IN [doc EXCEPT !.lists = pageLinkLoop(uls, 0, totalPages(matched), active)]

(* showThenHide without the show step: an item hidden before is hidden again *)
showThenHide_hideOnly(els) == [i \in DOMAIN els |-> hide(els[i])]

(* showThenHide without the hide step *)
showThenHide_showOnly(els) == [i \in DOMAIN els |-> show(els[i])]

(* then(array)(show)(then)(hide) over every student item *)
showThenHide(els) == [i \in DOMAIN els |-> hide(show(els[i]))]

(* then(array)(find({'>0>1.innerHTML': query})): the indices of the kept items *)
find(els, query) ==
  SelectSeq([i \in DOMAIN els |-> i],
            LAMBDA i : findIt(<<[key |-> NamePath, value |-> query]>>,
                              studentObject(els[i])).keep)

makePage(doc, query, page) ==
  LET hidden == showThenHide(doc.items)
      matched == find(hidden, query)
      window == slice(matched, first(page), last(page))
      shown == [i \in DOMAIN hidden |->
                  IF i \in Range(window) THEN show(hidden[i]) ELSE hidden[i]]
  IN createPageLinks([doc EXCEPT !.items = shown, !.array = matched],
                     matched, page)

(* getQuery without toLowerCase *)
getQuery_noLowerCase(doc) ==
  LET box == searchBox(doc)
  IN trim(IF box = 0 THEN <<>> ELSE doc.searchKids[box].value)

(* getQuery without trim *)
getQuery_noTrim(doc) ==
  LET box == searchBox(doc)
  IN toLowerCase(IF box = 0 THEN <<>> ELSE doc.searchKids[box].value)

getQuery(doc) ==
  LET box == searchBox(doc)
      query == IF box = 0 THEN <<>> ELSE doc.searchKids[box].value
  IN trim(toLowerCase(query))

(* removeList leaving the old list in the document *)
removeList_keep(uls) == uls

(* $('.list')().remove() *)
removeList(uls) == Tail(uls)

(* a page link as the property walk sees it: li > a, the label in the a *)
linkObject(link) ==
  JSObject(kChildren :> JSObject(<<"0">> :> JSObject(kInnerHTML :> JSString(link.innerHTML))))

LabelPath == <<">", "0", ".">> \o kInnerHTML

(* pageEvent passing page 1 whatever element the event fired on *)
eventPage_one(this) == Num(1)

(* the page argument pageEvent takes from the element the event fired on *)
eventPage(this) ==
  IF this.id = SearchId THEN Num(1)
  ELSE Str(getValue(linkObject(this), on(LabelPath)).value.s)

pageEvent(doc, this) ==
  IF doc.lists = <<>>
  THEN [doc EXCEPT !.error = TRUE]
  ELSE makePage([doc EXCEPT !.lists = removeList(@)], getQuery(doc), eventPage(this))

(* init rendering the second page *)
init_pageTwo(doc) == makePage(attachSearch(attachPagination(doc)), <<>>, Num(2))

init(doc) == makePage(attachSearch(attachPagination(doc)), <<>>, Num(1))

----------------------------------------------------------------------------
(* The page in the browser: load, then key-release and click events *)

NoReturn == [called |-> FALSE, value |-> <<>>]

NoCall == [op |-> "none"]

Init ==
  /\ pc = "load"
  /\ \E n \in 0..MaxItems, k \in 0..MaxPattern : items = Roster(n, k)
  /\ pageKids = <<>>
  /\ headerKids = <<>>
  /\ searchKids = <<>>
  /\ lists = <<>>
  /\ lastQuery = <<>>
  /\ lastPage = Num(0)
  /\ array = <<>>
  /\ renders = 0
  /\ event = "none"
  /\ clicked = <<>>
  /\ ret = NoReturn
  /\ error = FALSE
  /\ call = NoCall

(* the document after a call, written back to the state *)
Commit(doc) ==
  /\ items' = doc.items
  /\ pageKids' = doc.pageKids
  /\ headerKids' = doc.headerKids
  /\ searchKids' = doc.searchKids
  /\ lists' = doc.lists
  /\ array' = doc.array
  /\ error' = doc.error

(* the arguments of a makePage call, recorded *)
Rendered(query, page) ==
  /\ lastQuery' = query
  /\ lastPage' = page
  /\ renders' = renders + 1

(* the script runs init() once, when the page has loaded *)
Load ==
  /\ pc = "load"
  /\ pc' = "ready"
  /\ Commit(init(Document))
  /\ Rendered(<<>>, Num(1))
  /\ event' = "init"
  /\ UNCHANGED <<clicked, ret, call>>

(* the user changes the text of the search field; no handler listens to that *)
EditField(v) ==
  /\ pc = "ready"
  /\ searchBox(Document) # 0
  /\ searchKids[searchBox(Document)].value # v
  /\ searchKids' = [searchKids EXCEPT ![searchBox(Document)].value = v]
  /\ event' = "edit"
  /\ UNCHANGED <<pc, items, pageKids, headerKids, lists, lastQuery, lastPage,
                 array, renders, clicked, ret, error, call>>

(* a handler run: pageEvent with `this` the element the listener is on *)
Handle(this) ==
  /\ Commit(pageEvent(Document, this))
  /\ IF lists = <<>>
     THEN UNCHANGED <<lastQuery, lastPage, renders>>
     ELSE Rendered(getQuery(Document), eventPage(this))

(* keyup on the search input *)
KeyUp ==
  /\ pc = "ready"
  /\ renders < MaxRenders
  /\ searchBox(Document) # 0
  /\ Handle(searchKids[searchBox(Document)])
  /\ event' = "keyup"
  /\ UNCHANGED <<pc, clicked, ret, call>>

(* click on the k-th li of the u-th list *)
Click(u, k) ==
  /\ pc = "ready"
  /\ renders < MaxRenders
  /\ u \in DOMAIN lists
  /\ k \in DOMAIN lists[u].links
  /\ Handle(lists[u].links[k])
  /\ event' = "click"
  /\ clicked' = lists[u].links[k].innerHTML
  /\ UNCHANGED <<pc, ret, call>>

Next ==
  \/ Load
  \/ \E v \in FieldValues : EditField(v)
  \/ KeyUp
  \/ \E u \in DOMAIN lists : \E k \in DOMAIN lists[u].links : Click(u, k)

Spec == Init /\ [][Next]_vars

----------------------------------------------------------------------------
(* The functions called directly, on a document with the pagination        *)
(* container attached and the search box attached or not                   *)

MaxPage == ceilDiv(MaxItems, PageSize) + 1

InitCalls ==
  /\ pc = "ready"
  /\ \E n \in 0..MaxItems, k \in 0..MaxPattern : items = Roster(n, k)
  /\ pageKids = <<PaginationDiv(<<>>)>>
  /\ \/ headerKids = <<>> /\ searchKids = <<>>
     \/ /\ headerKids = <<SearchDiv(<<>>)>>
        /\ \E v \in FieldValues :
             searchKids = <<[SearchBox(<<>>) EXCEPT !.value = v]>>
  /\ lists = <<>>
  /\ lastQuery = <<>>
  /\ lastPage = Num(0)
  /\ array = <<>>
  /\ renders = 0
  /\ event = "none"
  /\ clicked = <<>>
  /\ ret = NoReturn
  /\ error = FALSE
  /\ call = NoCall

CallGetQuery ==
  /\ ret' = [called |-> TRUE, value |-> getQuery(Document)]
  /\ ret' # ret
  /\ event' = "call"
  /\ UNCHANGED <<pc, items, pageKids, headerKids, searchKids, lists, lastQuery,
                 lastPage, array, renders, clicked, error, call>>

CallMakePage(p) ==
  /\ ret.called
  /\ renders < MaxRenders
  /\ Commit(makePage(Document, ret.value, Num(p)))
  /\ Rendered(ret.value, Num(p))
  /\ event' = "call"
  /\ UNCHANGED <<pc, clicked, ret, call>>

NextCalls ==
  \/ CallGetQuery
  \/ \E p \in 1..MaxPage : CallMakePage(p)

SpecCalls == InitCalls /\ [][NextCalls]_vars

----------------------------------------------------------------------------
(* Vocabulary of the properties *)

IsVisible(el) == el.opacity = "1" /\ computedDisplay(el) # "none"

IsHidden(el) == el.opacity = "0" /\ computedDisplay(el) = "none"

VisibleSet == {i \in DOMAIN items : IsVisible(items[i])}

(* q occurs in name at some offset *)
Contains(name, q) ==
  \E o \in 0..Len(name) :
    /\ o + Len(q) <= Len(name)
    /\ \A j \in 1..Len(q) : name[o + j] = q[j]

(* the items whose name field contains q *)
MatchedSet(q) == {i \in DOMAIN items : Contains(items[i].name, q)}

(* zero-based position of item i in the matched list ms, in document order *)
Position(i, ms) == Cardinality({j \in ms : j < i})

PagesFor(m) == IF m % 10 = 0 THEN m \div 10 ELSE (m \div 10) + 1

(* the page argument of the most recent render, as a number *)
PageArg ==
  IF lastPage.t = "number" THEN lastPage.n
  ELSE CHOOSE n \in 0..(MaxItems + 10) : NumberToString(n) = lastPage.s

(* a render has completed *)
AfterRender == pc = "ready" /\ renders > 0 /\ ~error

(* every page link in the document, in document order *)
RECURSIVE Flatten(_)
Flatten(uls) == IF uls = <<>> THEN <<>> ELSE Head(uls).links \o Flatten(Tail(uls))

AllLinks == Flatten(lists)

ActiveLinks == {j \in DOMAIN AllLinks : AllLinks[j].className = "active"}

----------------------------------------------------------------------------
(* C1: after makePage(q, p) with p in 1..ceil(M/10), the visible items are *)
(* exactly positions (p-1)*10 .. min(p*10, M)-1 of the matched list in     *)
(* document order, every other item is hidden, at most 10 are visible.     *)
C1_VisibleSlice ==
  LET ms == MatchedSet(lastQuery)
      m == Cardinality(ms)
      lo == (PageArg - 1) * 10
      hi == (IF PageArg * 10 < m THEN PageArg * 10 ELSE m) - 1
  IN (AfterRender /\ PageArg \in 1..PagesFor(m)) =>
       /\ \A i \in DOMAIN items :
            IF i \in ms /\ Position(i, ms) \in lo..hi
            THEN IsVisible(items[i]) ELSE IsHidden(items[i])
       /\ Cardinality(VisibleSet) = hi - lo + 1
       /\ Cardinality(VisibleSet) <= 10

(* page 2 of 20 matched items scattered over 25: ten visible, not the first ten *)
C1_Witness ==
  /\ AfterRender
  /\ Len(items) = 25
  /\ Cardinality(MatchedSet(lastQuery)) = 20
  /\ PageArg = 2
  /\ Cardinality(VisibleSet) = 10
  /\ \E i \in DOMAIN items : i < 12 /\ IsHidden(items[i]) /\ i \notin MatchedSet(lastQuery)

(* C2: a render creates ceil(M/10) page links, M the size of the matched   *)
(* set before slicing, labelled 1..ceil(M/10) ascending; none when M = 0.  *)
C2_LinkCount ==
  LET m == Cardinality(MatchedSet(lastQuery))
  IN AfterRender =>
       /\ lists # <<>>
       /\ Len(lists[1].links) = PagesFor(m)
       /\ \A j \in DOMAIN lists[1].links :
            lists[1].links[j].innerHTML = NumberToString(j)
       /\ (m = 0 => AllLinks = <<>>)

C2_Witness ==
  /\ AfterRender
  /\ Cardinality(MatchedSet(lastQuery)) = 11
  /\ Len(lists[1].links) = 2
  /\ lists[1].links[2].innerHTML = <<"2">>

C2_WitnessNone ==
  /\ AfterRender
  /\ Len(items) > 0
  /\ MatchedSet(lastQuery) = {}
  /\ AllLinks = <<>>

(* C3: when at least one page link is rendered, exactly one link is active *)
(* and its label is the page argument of the most recent render.           *)
C3_OneActive ==
  (AfterRender /\ AllLinks # <<>>) =>
    /\ Cardinality(ActiveLinks) = 1
    /\ \A j \in ActiveLinks : AllLinks[j].innerHTML = NumberToString(PageArg)

(* C4, as stated: the visible set is the whole matched subset *)
C4_VisibleIsMatched ==
  AfterRender => VisibleSet = MatchedSet(lastQuery)

(* C4, amended: the filtering step yields exactly the items whose name     *)
(* contains q; the visible set is the part of them in the page window, and *)
(* is all of them when they fit the first page.                            *)
C4_VisibleIsMatchedInWindow ==
  LET ms == MatchedSet(lastQuery)
      m == Cardinality(ms)
  IN AfterRender =>
       /\ Range(array) = ms
       /\ VisibleSet =
            {i \in ms : /\ (PageArg - 1) * 10 <= Position(i, ms)
                        /\ Position(i, ms) < PageArg * 10}
       /\ ((m <= 10 /\ PageArg = 1) => VisibleSet = ms)

C4_Witness ==
  /\ AfterRender
  /\ lastQuery = <<"a">>
  /\ PageArg = 1
  /\ Cardinality(MatchedSet(lastQuery)) \in 1..10
  /\ VisibleSet = MatchedSet(lastQuery)
  /\ VisibleSet # DOMAIN items

(* the text of the search field *)
FieldValue == searchKids[searchBox(Document)].value

CasePairs == {<<"A", "a">>, <<"B", "b">>, <<"C", "c">>}

(* q is v without its leading and trailing white space, letters lower-cased *)
IsLowerTrimmed(q, v) ==
  \E a \in 0..Len(v), b \in 0..Len(v) :
    /\ a <= b
    /\ Len(q) = b - a
    /\ \A j \in 1..a : v[j] = " "
    /\ \A j \in (b + 1)..Len(v) : v[j] = " "
    /\ \A j \in 1..Len(q) :
         /\ q[j] \notin {pr[1] : pr \in CasePairs}
         /\ q[j] = v[a + j] \/ <<v[a + j], q[j]>> \in CasePairs
    /\ q # <<>> => q[1] # " " /\ q[Len(q)] # " "

(* C5: a key-release in the search field causes exactly one render, with   *)
(* the field's value lower-cased and trimmed as query and 1 as page,       *)
(* whatever page was shown before.                                         *)
C5_KeyUpRendersPageOne ==
  [][event' = "keyup" =>
       /\ renders' = renders + 1
       /\ IsLowerTrimmed(lastQuery', FieldValue')
       /\ lastPage' = Num(1)
       /\ ~error']_vars

(* a key-release after a click on link 2, the field holding "B" *)
C5_Witness ==
  /\ event = "keyup"
  /\ clicked = <<"2">>
  /\ FieldValue = <<"B">>
  /\ lastQuery = <<"b">>
  /\ lastPage = Num(1)
  /\ renders = 3

(* C6: a click on the page link labelled n re-runs the renderer with page  *)
(* n and with the query the most recent render used.                       *)
C6_ClickKeepsQuery ==
  [][event' = "click" =>
       /\ renders' = renders + 1
       /\ NumberToString(PageArg') = clicked'
       /\ lastQuery' = lastQuery]_vars

(* C7: after init and any events exactly one link list is in the           *)
(* pagination container, holding only the links of the most recent render. *)
C7_OneList ==
  (pc = "ready" /\ ~error) =>
    /\ Len(lists) = 1
    /\ Len(AllLinks) = PagesFor(Len(array))
    /\ \A j, h \in DOMAIN AllLinks :
         AllLinks[j].innerHTML = AllLinks[h].innerHTML => j = h

C7_Witness ==
  /\ pc = "ready"
  /\ renders = 3
  /\ event = "click"
  /\ Len(lists) = 1
  /\ Len(AllLinks) = 2

(* C8: makePage with a page whose window is empty (p > ceil(M/10), or      *)
(* M = 0) raises no error and leaves no item visible; the page links of    *)
(* the matched set are still rendered.                                     *)
C8_EmptyWindow ==
  LET m == Cardinality(MatchedSet(lastQuery))
  IN (pc = "ready" /\ renders > 0 /\ PageArg > PagesFor(m)) =>
       /\ ~error
       /\ \A i \in DOMAIN items : IsHidden(items[i])
       /\ lists # <<>>
       /\ Len(lists[1].links) = PagesFor(m)

(* page 3 of a matched set that fills one page *)
C8_Witness ==
  /\ pc = "ready"
  /\ PageArg = 3
  /\ Cardinality(MatchedSet(lastQuery)) \in 1..10
  /\ VisibleSet = {}
  /\ Len(AllLinks) = 1

(* C9: getQuery returns the empty string when the search field is absent,  *)
(* empty or all white space; a render with the empty query matches every   *)
(* student item.                                                           *)
C9_EmptyQuery ==
  /\ (ret.called /\ (searchBox(Document) = 0
                     \/ \A j \in DOMAIN FieldValue : FieldValue[j] = " "))
       => ret.value = <<>>
  /\ (AfterRender /\ lastQuery = <<>>) =>
       /\ array = [i \in 1..Len(items) |-> i]
       /\ VisibleSet = {i \in DOMAIN items :
                          (PageArg - 1) * 10 < i /\ i <= PageArg * 10}

(* no search field, the query returned is empty and the render shows page 2 of all *)
C9_Witness ==
  /\ searchBox(Document) = 0
  /\ ret.called
  /\ ret.value = <<>>
  /\ AfterRender
  /\ Len(items) = 25
  /\ PageArg = 2
  /\ Cardinality(VisibleSet) = 10

(* the document as the host delivers it, with the containers attached *)
Pristine ==
  [Document EXCEPT
     !.items = [i \in DOMAIN items |->
                  [items[i] EXCEPT !.opacity = "", !.display = "", !.stored = Undefined]],
     !.lists = <<>>]

LinkLabels(uls) == [j \in DOMAIN Flatten(uls) |-> Flatten(uls)[j].innerHTML]

LinkClasses(uls) == [j \in DOMAIN Flatten(uls) |-> Flatten(uls)[j].className]

(* C10: the rendered page - visible items, number and labels of the links, *)
(* the active link - is the one a first render of (q, p) gives, whatever   *)
(* renders came before.                                                    *)
C10_HistoryIndependent ==
  AfterRender =>
    LET once == makePage(Pristine, lastQuery, lastPage)
    IN /\ VisibleSet = {i \in DOMAIN items : IsVisible(once.items[i])}
       /\ LinkLabels(lists) = LinkLabels(once.lists)
       /\ LinkClasses(lists) = LinkClasses(once.lists)

(* a third render showing items that the render before had hidden *)
C10_Witness ==
  /\ AfterRender
  /\ renders = 3
  /\ PageArg = 2
  /\ clicked = <<"2">>
  /\ event = "click"
  /\ Cardinality(VisibleSet) > 0
  /\ Cardinality(ActiveLinks) = 1

----------------------------------------------------------------------------
(* hide and show called on single elements, alone and one after the other  *)

MaxCalls == 2

ElementCss == {"block", "none"}
ElementOpacity == {"", "0", "0.5", "1"}
ElementDisplay == {"", "none", "inline"}
ElementStored == {Undefined, "", "none", "block"}

Elements ==
  [name : {<<>>}, css : ElementCss, opacity : ElementOpacity,
   display : ElementDisplay, stored : ElementStored]

(* the element as a node, and the children of the parent an appendTo step  *)
(* appends it to: none, another node, the element and another node         *)
ElementNode == [node |-> 1]
ElementParents == {<<>>, <<[node |-> 2]>>, <<[node |-> 1], [node |-> 2]>>}

(* no document: the variables of the page stay as they are *)
NoPage ==
  /\ pc = "none"
  /\ items = <<>>
  /\ pageKids = <<>>
  /\ headerKids = <<>>
  /\ searchKids = <<>>
  /\ lists = <<>>
  /\ lastQuery = <<>>
  /\ lastPage = Num(0)
  /\ array = <<>>
  /\ renders = 0
  /\ event = "none"
  /\ clicked = <<>>
  /\ ret = NoReturn
  /\ error = FALSE

PageUnchanged ==
  UNCHANGED <<pc, items, pageKids, headerKids, searchKids, lists, lastQuery,
              lastPage, array, renders, event, clicked, ret, error>>

InitElem ==
  /\ NoPage
  /\ \E e \in Elements, children \in ElementParents :
       call = [op |-> "element", ops |-> <<>>, orig |-> e, arg |-> e, out |-> e,
               parent |-> children]

CallHide ==
  /\ Len(call.ops) < MaxCalls
  /\ call' = [call EXCEPT !.ops = Append(@, "hide"), !.arg = call.out,
                          !.out = hide(call.out)]
  /\ PageUnchanged

CallShow ==
  /\ Len(call.ops) < MaxCalls
  /\ call' = [call EXCEPT !.ops = Append(@, "show"), !.arg = call.out,
                          !.out = show(call.out)]
  /\ PageUnchanged

(* $(x)(and)(hide) *)
CallAndHide ==
  /\ Len(call.ops) < MaxCalls
  /\ call' = [call EXCEPT !.ops = Append(@, "andHide"), !.arg = call.out,
                          !.out = and(call.out, "hide").continued]
  /\ PageUnchanged

(* $(x)(and)(show) *)
CallAndShow ==
  /\ Len(call.ops) < MaxCalls
  /\ call' = [call EXCEPT !.ops = Append(@, "andShow"), !.arg = call.out,
                          !.out = and(call.out, "show").continued]
  /\ PageUnchanged

(* $(x)(and)(appendTo(parent)) *)
CallAndAppendTo ==
  /\ Len(call.ops) < MaxCalls
  /\ call' = [call EXCEPT !.ops = Append(@, "andAppendTo"), !.arg = call.out,
                          !.parent = andAppendTo(@, ElementNode)]
  /\ PageUnchanged

NextElem == CallHide \/ CallShow \/ CallAndHide \/ CallAndShow \/ CallAndAppendTo

SpecElem == InitElem /\ [][NextElem]_vars

(* the opacity an element is painted with: unset means 1 *)
UsedOpacity(el) == IF el.opacity = "" THEN "1" ELSE el.opacity

LastOp == IF call.ops = <<>> THEN "none" ELSE call.ops[Len(call.ops)]

(* C11: hide(e) sets opacity '0', stores the computed display e had before *)
(* the call and sets display 'none'; show(e) sets opacity '1', display to  *)
(* the stored value if there is one and to '' otherwise, and removes the   *)
(* stored value. Both return e.                                            *)
C11_HideShow ==
  LET before == IF call.arg.display = "" THEN call.arg.css ELSE call.arg.display
  IN /\ LastOp = "hide" =>
          /\ call.out.opacity = "0"
          /\ call.out.stored = before
          /\ call.out.display = "none"
          /\ call.out.css = call.arg.css /\ call.out.name = call.arg.name
     /\ LastOp = "show" =>
          /\ call.out.opacity = "1"
          /\ call.out.display =
               (IF call.arg.stored \in {Undefined, ""} THEN "" ELSE call.arg.stored)
          /\ call.out.stored = Undefined
          /\ call.out.css = call.arg.css /\ call.out.name = call.arg.name

(* hide of an element with an inline display, then show of the result *)
C11_Witness ==
  /\ call.ops = <<"hide", "show">>
  /\ call.orig.display = "inline"
  /\ call.orig.css = "block"
  /\ call.arg.stored = "inline"
  /\ call.out.display = "inline"
  /\ call.out.opacity = "1"

(* C12, as stated: hide(show(x)) and show(hide(x)) each leave x with the   *)
(* opacity and display it had before the two calls.                        *)
C12_RoundTrip ==
  call.ops \in {<<"show", "hide">>, <<"hide", "show">>} =>
    /\ UsedOpacity(call.out) = UsedOpacity(call.orig)
    /\ computedDisplay(call.out) = computedDisplay(call.orig)

(* C12, amended: show(hide(x)) leaves x with the computed display it had,  *)
(* and with its opacity when that was 1; hide(show(x)) leaves x hidden     *)
(* (opacity '0', display 'none'), which is its former opacity and display  *)
(* only when x was hidden before.                                          *)
C12_RoundTripFromShownOrHidden ==
  /\ call.ops = <<"hide", "show">> =>
       /\ computedDisplay(call.out) = computedDisplay(call.orig)
       /\ call.out.opacity = "1"
       /\ UsedOpacity(call.out) = UsedOpacity(call.orig)
            <=> UsedOpacity(call.orig) = "1"
  /\ call.ops = <<"show", "hide">> =>
       /\ call.out.opacity = "0" /\ call.out.display = "none"
       /\ (/\ UsedOpacity(call.out) = UsedOpacity(call.orig)
           /\ computedDisplay(call.out) = computedDisplay(call.orig))
            <=> (call.orig.opacity = "0" /\ computedDisplay(call.orig) = "none")

(* show(hide(x)) of a visible x with an inline display *)
C12_Witness ==
  /\ call.ops = <<"hide", "show">>
  /\ call.orig.opacity = "1"
  /\ call.orig.display = "inline"
  /\ call.orig.stored = Undefined
  /\ call.out = call.orig

----------------------------------------------------------------------------
(* The library functions called directly *)

MaxPathLen == 3
MaxSelLen == 4

TargetA ==
  JSObject(kClassName :> JSString(<<"a">>)
           @@ kStyle :> JSObject(kWidth :> JSString(<<"9">>))
           @@ kChildren :> JSObject(<<"0">> :> JSObject(kInnerHTML :> JSString(<<"x">>))))

TargetB ==
  JSObject(kClassName :> JSString(<<>>)
           @@ kStyle :> JSObject(kWidth :> JSString(<<>>) @@ kValue :> JSNumber(3)))

LibTargets == {TargetA, TargetB}

LibKeys == {kClassName, kStyle, kWidth, kChildren, <<"0">>, kInnerHTML, kValue, kLength}

SeqsUpTo(S, n) == UNION {[1..m -> S] : m \in 0..n}

LibPaths == SeqsUpTo(LibKeys, MaxPathLen)

LibValues == {<<"r">>, <<"r", "0">>}

SelectorChars == {".", ">", "a", "0"}

LibSelectors ==
  SeqsUpTo(SelectorChars, MaxSelLen)
    \cup {NamePath, <<".">> \o kWidth, kValue, <<">", "0", ".">> \o kInnerHTML,
          kStyle \o <<".">> \o kWidth}

(* the collections the steps are applied to *)
MaxArray == 3
LibElements == {TargetA, TargetB, JSString(<<"r">>)}
LibArrays == SeqsUpTo(LibElements, MaxArray)

(* the steps of then: named callbacks, functions without a name with their *)
(* further arguments, names of array methods and of an array property that *)
(* is no method                                                            *)
StepNames == {<<"m">>, <<"f">>, <<"s">>, <<"M">>, <<"m", "f">>, <<"h", "i", "d", "e">>}
SliceIndex == {JSNumber(n) : n \in 0..2}
LibSteps ==
  {[action |-> Function(name, [fn |-> fn]), args |-> <<>>] :
     name \in StepNames, fn \in {"isObject", "self", "index"}}
  \cup {[action |-> Function(<<>>, [fn |-> "size"]), args |-> <<>>]}
  \cup {[action |-> Function(<<>>, [fn |-> "first"]), args |-> <<n>>] : n \in SliceIndex}
  \cup {[action |-> JSString(kSlice), args |-> args] : args \in SeqsUpTo(SliceIndex, 2)}
  \cup {[action |-> JSString(kReverse), args |-> <<>>],
        [action |-> JSString(kLength), args |-> <<>>]}

(* the pairs objects of find and match, as objToArr lists them *)
MaxPairs == 2
PairKeys == {kClassName, <<".">> \o kWidth, <<".">> \o kValue, <<">", "0", ".">> \o kInnerHTML}
PairValues == {<<>>, <<"a">>, <<"3">>}
LibObjects ==
  {object \in SeqsUpTo([key : PairKeys, value : PairValues], MaxPairs) :
     \A j, k \in DOMAIN object : object[j].key = object[k].key => j = k}

InitLib == NoPage /\ call = NoCall

CallGetValue(target, keys) ==
  /\ call = NoCall
  /\ call' = [op |-> "getValue", target |-> target, keys |-> keys,
              out |-> target,
              value |-> getValue(target, keys).value,
              error |-> getValue(target, keys).error]
  /\ PageUnchanged

CallSetValue(v, target, keys) ==
  /\ call = NoCall
  /\ call' = [op |-> "setValue", target |-> target, keys |-> keys, arg |-> v,
              out |-> setValue(JSString(v), target, keys).root,
              value |-> setValue(JSString(v), target, keys).value,
              error |-> setValue(JSString(v), target, keys).error]
  /\ PageUnchanged

CallOn(selector) ==
  /\ call = NoCall
  /\ call' = [op |-> "on", selector |-> selector, keys |-> on(selector)]
  /\ PageUnchanged

(* then(elementArray)(action) and, where the step takes them, (...args) *)
CallThen(elementArray, action, args) ==
  /\ call = NoCall
  /\ call' = [op |-> "then", elementArray |-> elementArray, action |-> action,
              args |-> args,
              error |-> then(elementArray, action, args).error,
              returned |-> then(elementArray, action, args).returned,
              continued |-> then(elementArray, action, args).continued]
  /\ PageUnchanged

(* then(elementArray)(find(object)) *)
CallFind(elementArray, object) ==
  /\ call = NoCall
  /\ call' = [op |-> "find", elementArray |-> elementArray, object |-> object,
              error |-> then(elementArray, findPairs(object), <<>>).error,
              returned |-> then(elementArray, findPairs(object), <<>>).returned,
              continued |-> then(elementArray, findPairs(object), <<>>).continued]
  /\ PageUnchanged

(* then(elementArray)(match(object)) *)
CallMatch(elementArray, object) ==
  /\ call = NoCall
  /\ call' = [op |-> "match", elementArray |-> elementArray, object |-> object,
              error |-> then(elementArray, match(object), <<>>).error,
              returned |-> then(elementArray, match(object), <<>>).returned,
              continued |-> then(elementArray, match(object), <<>>).continued]
  /\ PageUnchanged

NextLib ==
  \/ \E target \in LibTargets, keys \in LibPaths : CallGetValue(target, keys)
  \/ \E v \in LibValues, target \in LibTargets, keys \in LibPaths :
       CallSetValue(v, target, keys)
  \/ \E selector \in LibSelectors : CallOn(selector)
  \/ \E elementArray \in LibArrays, step \in LibSteps :
       CallThen(elementArray, step.action, step.args)
  \/ \E elementArray \in LibArrays, object \in LibObjects :
       CallFind(elementArray, object)
  \/ \E elementArray \in LibArrays, object \in LibObjects :
       CallMatch(elementArray, object)

SpecLib == InitLib /\ [][NextLib]_vars

Prefix(keys, j) == SubSeq(keys, 1, j)

IsPrefix(q, keys) == Len(q) <= Len(keys) /\ q = Prefix(keys, Len(q))

(* the values before step j of the walk are all objects *)
ObjectsBefore(target, keys, j) ==
  \A h \in 0..(j - 1) : At(target, Prefix(keys, h)).t = "object"

(* a key of the path is missing from the object reached: the leaf or an earlier key *)
MissingAt(target, keys, j) ==
  /\ j \in DOMAIN keys
  /\ ObjectsBefore(target, keys, j)
  /\ keys[j] \notin DOMAIN At(target, Prefix(keys, j - 1)).props

(* C13: getValue and setValue with a path that has a missing leaf key or a *)
(* missing intermediate key complete without an error and leave the target *)
(* unchanged.                                                              *)
C13_MissingPathIgnored ==
  (/\ call.op \in {"getValue", "setValue"}
   /\ \E j \in DOMAIN call.keys : MissingAt(call.target, call.keys, j)) =>
    /\ ~call.error
    /\ call.out = call.target

(* the part of C13 the code keeps: a missing leaf key is ignored, a missing *)
(* earlier key throws                                                      *)
C13_OnlyMissingLeafIgnored ==
  call.op \in {"getValue", "setValue"} =>
    \A j \in DOMAIN call.keys :
      MissingAt(call.target, call.keys, j) =>
        /\ call.error <=> j < Len(call.keys)
        /\ call.out = call.target

(* C14: setValue(v) writes v only at a step whose current value is a       *)
(* string; a step whose value is not a string is not written. With objects *)
(* on the way and a string leaf exactly the leaf is overwritten and every  *)
(* other property of the target is unchanged.                              *)
C14_WritesStringsOnly ==
  call.op = "setValue" =>
    LET n == Len(call.keys)
        was(q) == At(call.target, q)
        now(q) == At(call.out, q)
    IN /\ \A j \in 1..n :
            ObjectsBefore(call.target, call.keys, j) =>
              IF was(Prefix(call.keys, j)).t = "string"
              THEN now(Prefix(call.keys, j)) = JSString(call.arg)
              ELSE /\ now(Prefix(call.keys, j)).t = was(Prefix(call.keys, j)).t
                   /\ now(Prefix(call.keys, j)).s = was(Prefix(call.keys, j)).s
       /\ \A q \in LibPaths : ~IsPrefix(q, call.keys) => now(q) = was(q)
       /\ (n > 0 /\ ObjectsBefore(call.target, call.keys, n)
             /\ was(call.keys).t = "string") =>
            /\ ~call.error
            /\ now(call.keys) = JSString(call.arg)
            /\ call.value = JSString(call.arg)
            /\ \A j \in 0..(n - 1) :
                 DOMAIN now(Prefix(call.keys, j)).props
                   = DOMAIN was(Prefix(call.keys, j)).props

(* setValue('r') at style.width: the width is written, className and children stay *)
C14_Witness ==
  /\ call.op = "setValue"
  /\ call.target = TargetA
  /\ call.keys = <<kStyle, kWidth>>
  /\ call.arg = <<"r">>
  /\ At(call.out, <<kStyle, kWidth>>) = JSString(<<"r">>)
  /\ At(call.out, <<kClassName>>) = JSString(<<"a">>)
  /\ call.out # call.target


(***************************************************************************)
(* C16: the key sequence of on(selector)                                   *)
(***************************************************************************)
(* the keys read off the selector from left to right: a '.' ends a key, a  *)
(* '>' ends a key and gives the children key, empty keys are dropped       *)
RECURSIVE KeysOf(_, _)
KeysOf(selector, key) ==
  LET done == IF key = <<>> THEN <<>> ELSE <<key>>
  IN IF selector = <<>> THEN done
     ELSE CASE Head(selector) = "." -> done \o KeysOf(Tail(selector), <<>>)
            [] Head(selector) = ">" -> done \o <<kChildren>> \o KeysOf(Tail(selector), <<>>)
            [] OTHER -> KeysOf(Tail(selector), Append(key, Head(selector)))

LeadingDot(selector) == selector # <<>> /\ selector[1] = "."
HasChild(selector) == \E j \in DOMAIN selector : selector[j] = ">"

(* C16 as stated: on(selector) applies every rewrite that fits, so a       *)
(* selector that starts with '.' and contains '>' gets the style key and   *)
(* the children keys                                                       *)
C16_BothRewrites ==
  call.op = "on" =>
    call.keys = (IF LeadingDot(call.selector) THEN <<kStyle>> ELSE <<>>)
                  \o KeysOf(call.selector, <<>>)

(* C16 amended: on(selector) gives the style key followed by the rest for  *)
(* a leading '.', the children key and the index for each '>', and the     *)
(* plain split otherwise; a selector that starts with '.' and contains '>' *)
(* gets the children keys only, without the style key                      *)
C16_OneRewrite ==
  call.op = "on" =>
    /\ call.keys = (IF LeadingDot(call.selector) /\ ~HasChild(call.selector)
                      THEN <<kStyle>> ELSE <<>>)
                     \o KeysOf(call.selector, <<>>)
    /\ call.selector = <<".">> \o kWidth => call.keys = <<kStyle, kWidth>>
    /\ call.selector = NamePath =>
         call.keys = <<kChildren, <<"0">>, kChildren, <<"1">>, kInnerHTML>>
    /\ call.selector = kValue => call.keys = <<kValue>>

C16_Witness ==
  /\ call.op = "on"
  /\ call.selector = <<".", "a", ">", "0">>
  /\ call.keys = <<<<"a">>, kChildren, <<"0">>>>


(***************************************************************************)
(* C15: the dispatch of then(collection)(action)                           *)
(***************************************************************************)
IsMethodName(action) == action.t = "string" /\ action.s \in {kSlice, kReverse}
IsFilterName(action) == action.t = "function" /\ action.name \in {<<"m">>, <<"f">>}
IsOtherName(action) ==
  action.t = "function" /\ action.name # <<>> /\ ~IsFilterName(action)
IsAnonymous(action) == action.t = "function" /\ action.name = <<>>

(* the indices of the elements for which the action gives a true value *)
KeptIndices(elementArray, action) ==
  {j \in DOMAIN elementArray :
     Truthy(Apply(action, <<elementArray[j], JSNumber(j - 1),
                            JSArray(elementArray)>>).value)}

(* kept is the subsequence of elementArray at exactly the indices of keep *)
IsSubsequenceAt(kept, elementArray, keep) ==
  \E at \in [DOMAIN kept -> keep] :
    /\ \A j, k \in DOMAIN kept : j < k => at[j] < at[k]
    /\ \A k \in keep : \E j \in DOMAIN kept : at[j] = k
    /\ \A j \in DOMAIN kept : kept[j] = elementArray[at[j]]

(* what the array method of the step gives, element by element *)
IsMethodResult(result, elementArray, action, args) ==
  LET len == Len(elementArray)
      begin == IF Len(args) >= 1 THEN Min(StringToNumber(args[1].s), len) ELSE 0
      end == IF Len(args) >= 2 THEN Min(StringToNumber(args[2].s), len) ELSE len
  IN /\ result.t = "array"
     /\ action.s = kReverse =>
          /\ Len(result.elements) = len
          /\ \A j \in 1..len : result.elements[j] = elementArray[len + 1 - j]
     /\ action.s = kSlice =>
          /\ Len(result.elements) = Max(end - begin, 0)
          /\ \A j \in DOMAIN result.elements :
               result.elements[j] = elementArray[begin + j]

(* C15: then(collection)(action) filters by a function named m or f, maps  *)
(* any other named function (same length and order), calls the array       *)
(* method a string names with the arguments, and calls a function without  *)
(* a name with the collection first; the result is what the chain returns  *)
(* at its end and what the next step is given                              *)
C15_ThenDispatch ==
  (/\ call.op = "then"
   /\ call.action.t = "string" => IsMethodName(call.action))
  =>
    /\ ~call.error
    /\ call.returned = call.continued
    /\ IsFilterName(call.action) =>
         /\ call.returned.t = "array"
         /\ IsSubsequenceAt(call.returned.elements, call.elementArray,
                            KeptIndices(call.elementArray, call.action))
    /\ IsOtherName(call.action) =>
         /\ call.returned.t = "array"
         /\ Len(call.returned.elements) = Len(call.elementArray)
         /\ \A j \in DOMAIN call.elementArray :
              call.returned.elements[j] =
                Apply(call.action, <<call.elementArray[j], JSNumber(j - 1),
                                     JSArray(call.elementArray)>>).value
    /\ IsMethodName(call.action) =>
         IsMethodResult(call.returned, call.elementArray, call.action, call.args)
    /\ IsAnonymous(call.action) =>
         call.returned =
           Apply(call.action, <<JSArray(call.elementArray)>> \o call.args).value

(* a callback named m that gives the index drops the first of three elements *)
C15_Witness ==
  /\ call.op = "then"
  /\ call.action = Function(<<"m">>, [fn |-> "index"])
  /\ call.elementArray = <<TargetA, TargetB, TargetA>>
  /\ call.returned = JSArray(<<TargetB, TargetA>>)
  /\ call.continued = call.returned


(***************************************************************************)
(* C19: find and match as collection steps                                 *)
(***************************************************************************)
(* the property of the element at the path of the pair, undefined where    *)
(* the path does not lead to a value                                       *)
PropertyAt(element, pair) == getValue(element, on(pair.key)).value

ContainsValue(element, pair) ==
  /\ PropertyAt(element, pair).t = "string"
  /\ includes(PropertyAt(element, pair).s, pair.value)

EqualsValue(element, pair) == looseEquals(PropertyAt(element, pair), pair.value)

FindKeeps(elementArray, object) ==
  {j \in DOMAIN elementArray :
     \E k \in DOMAIN object : ContainsValue(elementArray[j], object[k])}

MatchKeeps(elementArray, object) ==
  {j \in DOMAIN elementArray :
     \A k \in DOMAIN object : EqualsValue(elementArray[j], object[k])}

StepKeeps ==
  IF call.op = "find" THEN FindKeeps(call.elementArray, call.object)
  ELSE MatchKeeps(call.elementArray, call.object)

(* C19: find keeps exactly the elements with a property that contains the  *)
(* value of some pair, match exactly those whose properties equal the      *)
(* values of all pairs; the kept elements are in their order and           *)
(* unmodified; with no pairs find keeps none and match keeps all           *)
C19_FindMatch ==
  call.op \in {"find", "match"} =>
    /\ ~call.error
    /\ call.returned.t = "array"
    /\ IsSubsequenceAt(call.returned.elements, call.elementArray, StepKeeps)
    /\ call.object = <<>> =>
         call.returned.elements = IF call.op = "find" THEN <<>> ELSE call.elementArray

(* the part of C19 the code keeps: the result is as stated whenever no     *)
(* callback throws, and a callback throws only on a property that is not   *)
(* a string (find) or below a missing key (find, match)                    *)
C19_FindMatchUnlessThrown ==
  call.op \in {"find", "match"} =>
    /\ ~call.error =>
         /\ call.returned.t = "array"
         /\ IsSubsequenceAt(call.returned.elements, call.elementArray, StepKeeps)
    /\ call.error =>
         \E j \in DOMAIN call.elementArray, k \in DOMAIN call.object :
           \/ getValue(call.elementArray[j], on(call.object[k].key)).error
           \/ call.op = "find" /\ PropertyAt(call.elementArray[j], call.object[k]).t # "string"


(***************************************************************************)
(* C17: the matched set of an event-driven render                          *)
(***************************************************************************)
QueryChars == {"a", "b", "c", "A", "B", "C", " "}
QueryPool == UNION {[1..m -> QueryChars] : m \in 0..2}

EventRender == AfterRender /\ event \in {"keyup", "click"}

(* q occurs in name at some offset when upper and lower case are not told  *)
(* apart                                                                   *)
FoldedContains(name, q) ==
  \E o \in 0..Len(name) :
    /\ o + Len(q) <= Len(name)
    /\ \A j \in 1..Len(q) :
         name[o + j] = q[j] \/ <<name[o + j], q[j]>> \in CasePairs

(* C17: after a render run by an event the matched items are exactly the   *)
(* items whose stored name contains, letter for letter, the field's value  *)
(* lower-cased and trimmed; field values with the same lower-cased trimmed *)
(* form give the same matched set, and no item is matched through a letter *)
(* stored in upper case                                                    *)
C17_MatchedByFoldedQuery ==
  EventRender =>
    /\ \E q \in QueryPool : IsLowerTrimmed(q, FieldValue)
    /\ \A q \in QueryPool :
         IsLowerTrimmed(q, FieldValue) =>
           /\ Range(array) = MatchedSet(q)
           /\ \A v \in FieldValues :
                IsLowerTrimmed(q, v) =>
                  Range(array) = {i \in DOMAIN items :
                                    \E r \in QueryPool :
                                      IsLowerTrimmed(r, v) /\ Contains(items[i].name, r)}
           /\ \A i \in DOMAIN items :
                FoldedContains(items[i].name, q) /\ ~Contains(items[i].name, q)
                  => i \notin Range(array)

(* the field holds "A": the items named "ab" are matched, those named "Ab" *)
(* are not                                                                 *)
C17_Witness ==
  /\ EventRender
  /\ FieldValue = <<"A">>
  /\ \E i \in Range(array) : items[i].name = <<"a", "b">>
  /\ \E i \in DOMAIN items : items[i].name = <<"A", "b">> /\ i \notin Range(array)


(***************************************************************************)
(* C18: the page after init                                                *)
(***************************************************************************)
CountClass(children, className) ==
  Cardinality({j \in DOMAIN children : children[j].className = className})

(* C18: after init and before any event the page shows the empty query and *)
(* page 1: the first min(10, n) of the n items are visible and the rest    *)
(* hidden, there are ceil(n/10) links with link 1 active when n > 0, and   *)
(* one pagination container, one student-search container and one input    *)
(* with id 'search' are attached                                           *)
C18_InitialPage ==
  event = "init" =>
    /\ ~error
    /\ lastQuery = <<>> /\ lastPage = Num(1) /\ renders = 1
    /\ \A i \in DOMAIN items :
         IF i <= Min(10, Len(items)) THEN IsVisible(items[i]) ELSE IsHidden(items[i])
    /\ Len(lists) = 1
    /\ Len(AllLinks) = PagesFor(Len(items))
    /\ \A j \in DOMAIN AllLinks : AllLinks[j].innerHTML = NumberToString(j)
    /\ ActiveLinks = IF Len(items) > 0 THEN {1} ELSE {}
    /\ CountClass(pageKids, "pagination") = 1
    /\ CountClass(headerKids, "student-search") = 1
    /\ Cardinality({j \in DOMAIN searchKids : searchKids[j].id = SearchId}) = 1

(* 25 items: ten visible, three links *)
C18_Witness ==
  /\ event = "init"
  /\ Len(items) = 25
  /\ VisibleSet = 1..10
  /\ Len(AllLinks) = 3
  /\ AllLinks[1].className = "active"


(***************************************************************************)
(* C20: the two states of a student item                                   *)
(***************************************************************************)
VisibleState(el) ==
  /\ el.opacity = "1"
  /\ el.display # "none"
  /\ computedDisplay(el) # "none"
  /\ el.stored = Undefined

HiddenState(el) ==
  /\ el.opacity = "0"
  /\ el.display = "none"
  /\ el.css # "none"
  /\ el.stored = el.css

(* C20: after init and after any renders every student item is visible     *)
(* (opacity 1, display not none, nothing stored) or hidden (opacity 0,     *)
(* display none, its original display stored); the stored display is never *)
(* none and show makes the item visible again                              *)
C20_ItemStates ==
  pc = "ready" =>
    \A i \in DOMAIN items :
      /\ VisibleState(items[i]) \/ HiddenState(items[i])
      /\ items[i].stored # "none"
      /\ VisibleState(show(items[i]))

(* after a click on link 2: item 1, shown before, is hidden with its       *)
(* display stored, and item 12, hidden before, is visible                  *)
C20_Witness ==
  /\ pc = "ready"
  /\ event = "click"
  /\ clicked = <<"2">>
  /\ renders = 3
  /\ Len(items) > 11
  /\ HiddenState(items[1]) /\ items[1].stored = "block"
  /\ VisibleState(items[12]) /\ items[12].display = "list-item"


(***************************************************************************)
(* C21: the page argument of an event                                      *)
(***************************************************************************)
IsNumeric(s) == s # <<>> /\ AllDigits(s)

(* C21: a click passes to makePage the label of the clicked link, a        *)
(* numeral whose value is in 1..N for the N links present at the click, so *)
(* no page that is not a number reaches the window arithmetic; a key       *)
(* release passes the number 1                                             *)
C21_PageArgument ==
  [][/\ event' = "click" =>
          /\ renders' = renders + 1
          /\ IsNumeric(lastPage'.s)
          /\ lastPage'.s = clicked'
          /\ \E j \in DOMAIN AllLinks : AllLinks[j].innerHTML = lastPage'.s
          /\ StringToNumber(lastPage'.s) \in 1..Len(AllLinks)
          /\ ToNumber(lastPage') = StringToNumber(clicked')
     /\ event' = "keyup" => lastPage' = Num(1)]_vars

(* a click on link 3 of three links renders page 3 *)
C21_Witness ==
  /\ event = "click"
  /\ clicked = <<"3">>
  /\ ToNumber(lastPage) = 3
  /\ Len(AllLinks) = 3
  /\ VisibleSet = 21..Len(items)
  /\ Len(items) > 20


(***************************************************************************)
(* C22: element verbs in a single-element chain                            *)
(***************************************************************************)
ChildCount(children, element) ==
  Cardinality({j \in DOMAIN children : children[j].node = element.node})

(* C22: and(element)(verb) applies hide, show or an appendTo step to the   *)
(* element once and passes the element on; the chain (and)(hide)(and)(show)*)
(* leaves the element visible with its original display, and an appendTo   *)
(* step leaves it a child of the parent exactly once                       *)
C22_VerbOnce ==
  call.op = "element" =>
    /\ LastOp = "andHide" => call.out = hide(call.arg)
    /\ LastOp = "andShow" => call.out = show(call.arg)
    /\ call.ops = <<"andHide", "andShow">> /\ computedDisplay(call.orig) # "none" =>
         /\ IsVisible(call.out)
         /\ computedDisplay(call.out) = computedDisplay(call.orig)
    /\ LastOp = "andAppendTo" =>
         /\ ChildCount(call.parent, ElementNode) = 1
         /\ call.out = call.arg

(* the part of C22 the code keeps: the verb is applied twice to the        *)
(* element, and the element is a child of the parent once, the last one    *)
C22_VerbTwice ==
  call.op = "element" =>
    /\ LastOp = "andHide" => call.out = hide(hide(call.arg))
    /\ LastOp = "andShow" => call.out = show(show(call.arg))
    /\ LastOp = "andHide" /\ computedDisplay(call.arg) # "none" =>
         call.out.stored = "none" /\ call.out # hide(call.arg)
    /\ LastOp = "andAppendTo" =>
         /\ ChildCount(call.parent, ElementNode) = 1
         /\ call.parent[Len(call.parent)] = ElementNode
         /\ call.out = call.arg

====
